---- MODULE Spec2Model ----
(***************************************************************************)
(* Model of the LTSA REST wrapper (src/api/main.py).                       *)
(*                                                                         *)
(* Every POST endpoint validates its JSON body, derives the analyzer       *)
(* flags and calls execute_ltsp_command, which writes the specification    *)
(* into a fresh temporary file, runs `java -jar ltsp.jar <file> <flags>`   *)
(* with a 30 second timeout, maps the outcome to an LTSResponse or an      *)
(* HTTPException and unlinks the temporary file in a finally block.        *)
(* GET /health probes the jar and the java runtime.                        *)
(*                                                                         *)
(* The environment (file system, analyzer process, java runtime) is        *)
(* nondeterministic: the actions take its outcomes as parameters.          *)
(***************************************************************************)
EXTENDS Integers, Sequences, FiniteSets, TLC

\* ---------------------------------------------------------------- bounds
NumReq == 2      \* request slots that may be in flight concurrently
NumPaths == 2    \* temporary file names the file system can hand out

Req == 1..NumReq
SeqReq == {1}    \* the single slot used when requests are served one by one

\* ------------------------------------------------------------ constants
LTSP_JAR_PATH == "ltsp.jar"
AnalyzerTimeout == 30

NoneVal == "<None>"      \* Python None
Absent == "<absent>"     \* a field the JSON body does not carry
NoPath == "<unassigned>" \* temp_file_path before line 53 has run
BadBytes == "<0xFF>"     \* analyzer output that is not valid text

Paths == {"/tmp/tmp" \o ToString(i) \o ".lts" : i \in 1..NumPaths}

Endpoints == {"/parse", "/compile", "/compose", "/check/safety",
              "/check/progress", "/check/ltl"}
Contents == {"SWITCH = (on -> off -> SWITCH).", "P = (a -> b -> P)."}
Processes == {"SYSTEM"}
Properties == {"ASSERT_P"}

\* JSON bodies a client can send: content may be missing, process may be
\* missing or an explicit null, property may be missing.
Bodies == [content : Contents \cup {Absent},
           process : Processes \cup {Absent, NoneVal},
           property : Properties \cup {Absent}]

\* what the analyzer can write on a pipe: nothing, text with a CRLF line
\* end, or bytes that do not decode
RawOutputs == {"", "ok\r\n", BadBytes}
ExitCodes == {0, 1}

\* inputs of the concurrent specification
ConcEndpoints == {"/parse", "/check/ltl"}
ConcBodies == [content : Contents, process : {Absent}, property : Properties]
ConcRawOutputs == {""}

\* ------------------------------------------------------- request models
Invalid == [valid |-> FALSE, content |-> "", process |-> "", property |-> ""]

\* class LTSRequest: content required, process defaults to "DEFAULT",
\* fields the model does not declare are ignored
LTSRequest(b) ==
    IF b.content = Absent THEN Invalid
    ELSE [valid |-> TRUE, content |-> b.content,
          process |-> IF b.process = Absent THEN "DEFAULT" ELSE b.process,
          property |-> NoneVal]

\* class LTLRequest(LTSRequest): property required as well
LTLRequest(b) ==
    IF LTSRequest(b).valid /\ b.property # Absent
    THEN [LTSRequest(b) EXCEPT !.property = b.property]
    ELSE Invalid

\* ------------------------------------------------------------ responses
NoResp == [kind |-> "none", status |-> 0, success |-> FALSE,
           output |-> "", error |-> NoneVal, detail |-> ""]

LTSResponse(success, output, error) ==
    [kind |-> "LTSResponse", status |-> 200, success |-> success,
     output |-> output, error |-> error, detail |-> ""]

HTTPException(status_code, detail) ==
    [kind |-> "HTTPException", status |-> status_code, success |-> FALSE,
     output |-> "", error |-> NoneVal, detail |-> detail]

\* the framework's answer to a body that fails model validation
ValidationError == HTTPException(422, "field required")

\* the framework's answer to an exception no handler caught
UnhandledError == [kind |-> "ServerError", status |-> 500, success |-> FALSE,
                   output |-> "", error |-> NoneVal,
                   detail |-> "Internal Server Error"]

\* ------------------------------------------------------ endpoint flags
parse(request) == <<"-b", "parse">>
compile(request) == <<"-b", "compile", "-p", request.process>>
compose(request) == <<"-b", "compose", "-p", request.process>>
check_safety(request) == <<"-c", "safety", "-p", request.process>>
\* the progress handler with the safety handler's flags
check_progress_SafetyFlags(request) == <<"-c", "safety", "-p", request.process>>

check_progress(request) == <<"-c", "progress", "-p", request.process>>
check_ltl(request) ==
    <<"-c", "ltl_property", "-p", request.process, "-l", request.property>>

\* the request model each route declares
RouteModel(ep, b) == IF ep = "/check/ltl" THEN LTLRequest(b) ELSE LTSRequest(b)

\* the handler each route is bound to
RouteArgs(ep, request) ==
    CASE ep = "/parse" -> parse(request)
      [] ep = "/compile" -> compile(request)
      [] ep = "/compose" -> compose(request)
      [] ep = "/check/safety" -> check_safety(request)
      [] ep = "/check/progress" -> check_progress(request)
      [] ep = "/check/ltl" -> check_ltl(request)

\* ------------------------------------------------------------ the state
VARIABLES pc, endpoint, body, args, lts_content, temp_file_path, created,
          command, proc, pending, response, unlinked, fs, health

vars == <<pc, endpoint, body, args, lts_content, temp_file_path, created,
          command, proc, pending, response, unlinked, fs, health>>

reqVars == <<pc, endpoint, body, args, lts_content, temp_file_path, created,
             command, proc, pending, response, unlinked, fs>>

NoFile == [exists |-> FALSE, content |-> "", open |-> FALSE]
NoProc == [state |-> "none", argv |-> <<>>, timeout |-> 0, rc |-> 0,
           stdout |-> "", stderr |-> "", read |-> NoneVal]
NoHealth == [probed |-> FALSE, jar_on_disk |-> FALSE, java_run |-> "",
             status |-> "", ltsp_jar_exists |-> FALSE,
             ltsp_jar_path |-> "", java_available |-> FALSE]

Init ==
    /\ pc = [r \in Req |-> "idle"]
    /\ endpoint = [r \in Req |-> ""]
    /\ body = [r \in Req |-> [content |-> Absent, process |-> Absent,
                              property |-> Absent]]
    /\ args = [r \in Req |-> <<>>]
    /\ lts_content = [r \in Req |-> ""]
    /\ temp_file_path = [r \in Req |-> NoPath]
    /\ created = [r \in Req |-> NoPath]
    /\ command = [r \in Req |-> <<>>]
    /\ proc = [r \in Req |-> NoProc]
    /\ pending = [r \in Req |-> NoResp]
    /\ response = [r \in Req |-> NoResp]
    /\ unlinked = [r \in Req |-> "no"]
    /\ fs = [p \in Paths |-> NoFile]
    /\ health = NoHealth

\* ---------------------------------------------------- text conversion
\* subprocess.run(text=True) decodes the captured bytes strictly and
\* translates line ends; bytes that do not decode raise UnicodeDecodeError
Decodable(raw) == raw # BadBytes

Text(raw) == IF raw = "ok\r\n" THEN "ok\n" ELSE raw

\* ------------------------------------------------- request handling
\* a route that calls its handler without validating the body
Receive_Unvalidated(r, ep, b) ==
    /\ pc[r] = "idle"
    /\ endpoint' = [endpoint EXCEPT ![r] = ep]
    /\ body' = [body EXCEPT ![r] = b]
    /\ args' = [args EXCEPT ![r] = RouteArgs(ep, RouteModel(ep, b))]
    /\ lts_content' = [lts_content EXCEPT ![r] = RouteModel(ep, b).content]
    /\ pc' = [pc EXCEPT ![r] = "create"]
    /\ UNCHANGED <<response, temp_file_path, created, command, proc, pending,
                   unlinked, fs, health>>

\* The framework validates the body against the route's model; a body that
\* fails is answered with 422 and the handler is never called.  Otherwise
\* the handler derives its flags and calls execute_ltsp_command.
Receive(r, ep, b) ==
    /\ pc[r] = "idle"
    /\ endpoint' = [endpoint EXCEPT ![r] = ep]
    /\ body' = [body EXCEPT ![r] = b]
    /\ IF RouteModel(ep, b).valid
       THEN /\ args' = [args EXCEPT ![r] = RouteArgs(ep, RouteModel(ep, b))]
            /\ lts_content' = [lts_content EXCEPT ![r] = RouteModel(ep, b).content]
            /\ pc' = [pc EXCEPT ![r] = "create"]
            /\ UNCHANGED response
       ELSE /\ response' = [response EXCEPT ![r] = ValidationError]
            /\ pc' = [pc EXCEPT ![r] = "done"]
            /\ UNCHANGED <<args, lts_content>>
    /\ UNCHANGED <<temp_file_path, created, command, proc, pending, unlinked,
                   fs, health>>

\* line 51: NamedTemporaryFile(delete=False) creates a file under a name
\* no existing file has and leaves it open for writing
CreateTempFile(r, p) ==
    /\ pc[r] = "create"
    /\ ~fs[p].exists
    /\ fs' = [fs EXCEPT ![p] = [exists |-> TRUE, content |-> "", open |-> TRUE]]
    /\ created' = [created EXCEPT ![r] = p]
    /\ pc' = [pc EXCEPT ![r] = "write"]
    /\ UNCHANGED <<endpoint, body, args, lts_content, temp_file_path, command,
                   proc, pending, response, unlinked, health>>

\* lines 52-53 and the end of the with block: the content is written, the
\* name is remembered and the file is closed
WriteContent(r) ==
    /\ pc[r] = "write"
    /\ fs' = [fs EXCEPT ![created[r]] =
                [exists |-> TRUE, content |-> lts_content[r], open |-> FALSE]]
    /\ temp_file_path' = [temp_file_path EXCEPT ![r] = created[r]]
    /\ pc' = [pc EXCEPT ![r] = "build"]
    /\ UNCHANGED <<endpoint, body, args, lts_content, created, command, proc,
                   pending, response, unlinked, health>>

\* line 52 raises (disk full, content that does not encode): the with block
\* closes the file, which delete=False keeps on disk, and the exception
\* leaves execute_ltsp_command before its try statement is entered
WriteFails(r) ==
    /\ pc[r] = "write"
    /\ fs' = [fs EXCEPT ![created[r]] =
                [exists |-> TRUE, content |-> "", open |-> FALSE]]
    /\ response' = [response EXCEPT ![r] = UnhandledError]
    /\ pc' = [pc EXCEPT ![r] = "done"]
    /\ UNCHANGED <<endpoint, body, args, lts_content, temp_file_path, created,
                   command, proc, pending, unlinked, health>>

\* lines 57-59: the command is built and logged; joining the command for
\* the log raises TypeError when a flag is None, which line 86 catches
BuildCommand(r) ==
    /\ pc[r] = "build"
    /\ command' = [command EXCEPT ![r] =
                     <<"java", "-jar", LTSP_JAR_PATH, temp_file_path[r]>> \o args[r]]
    /\ IF \E i \in 1..Len(args[r]) : args[r][i] = NoneVal
       THEN /\ pending' = [pending EXCEPT ![r] =
                             HTTPException(500, "Internal server error")]
            /\ pc' = [pc EXCEPT ![r] = "finally"]
       ELSE /\ pc' = [pc EXCEPT ![r] = "run"]
            /\ UNCHANGED pending
    /\ UNCHANGED <<endpoint, body, args, lts_content, temp_file_path, created,
                   proc, response, unlinked, fs, health>>

\* line 62: the analyzer process is started
Spawn(r) ==
    /\ pc[r] = "run"
    /\ proc' = [proc EXCEPT ![r] = [NoProc EXCEPT !.state = "running",
                                                 !.argv = command[r],
                                                 !.timeout = AnalyzerTimeout]]
    /\ pc' = [pc EXCEPT ![r] = "wait"]
    /\ UNCHANGED <<endpoint, body, args, lts_content, temp_file_path, created,
                   command, pending, response, unlinked, fs, health>>

\* line 62 raises before any process exists: FileNotFoundError when java is
\* not on the path (line 84), any other OSError (line 86)
SpawnFails(r, exc) ==
    /\ pc[r] = "run"
    /\ pending' = [pending EXCEPT ![r] =
                     IF exc = "FileNotFoundError"
                     THEN HTTPException(500, "Java or ltsp.jar not found")
                     ELSE HTTPException(500, "Internal server error")]
    /\ pc' = [pc EXCEPT ![r] = "finally"]
    /\ UNCHANGED <<endpoint, body, args, lts_content, temp_file_path, created,
                   command, proc, response, unlinked, fs, health>>

\* lines 62-80: the analyzer reads its input file, writes its output and
\* exits within the timeout.  Output that decodes gives the LTSResponse of
\* lines 70-80; output that does not makes subprocess.run raise
\* UnicodeDecodeError, which line 86 turns into a 500.
RunCompletes(r, rc, out, err) ==
    /\ pc[r] = "wait"
    /\ proc' = [proc EXCEPT ![r] =
                  [@ EXCEPT !.state = "exited", !.rc = rc, !.stdout = out,
                            !.stderr = err,
                            !.read = IF fs[proc[r].argv[4]].exists
                                     THEN fs[proc[r].argv[4]].content
                                     ELSE NoneVal]]
    /\ pending' = [pending EXCEPT ![r] =
                     IF Decodable(out) /\ Decodable(err)
                     THEN LTSResponse(rc = 0, Text(out),
                                      IF Text(err) # "" THEN Text(err) ELSE NoneVal)
                     ELSE HTTPException(500, "Internal server error")]
    /\ pc' = [pc EXCEPT ![r] = "finally"]
    /\ UNCHANGED <<endpoint, body, args, lts_content, temp_file_path, created,
                   command, response, unlinked, fs, health>>

\* a timeout handler that leaves the function without running the finally block
RunTimesOut_SkipsCleanup(r) ==
    /\ pc[r] = "wait"
    /\ proc' = [proc EXCEPT ![r] = [@ EXCEPT !.state = "killed"]]
    /\ pending' = [pending EXCEPT ![r] =
                     HTTPException(408, "Command execution timed out")]
    /\ pc' = [pc EXCEPT ![r] = "return"]
    /\ UNCHANGED <<endpoint, body, args, lts_content, temp_file_path, created,
                   command, response, unlinked, fs, health>>

\* lines 66 and 82-83: the timeout expires, subprocess.run kills the
\* analyzer and raises TimeoutExpired
RunTimesOut(r) ==
    /\ pc[r] = "wait"
    /\ proc' = [proc EXCEPT ![r] = [@ EXCEPT !.state = "killed"]]
    /\ pending' = [pending EXCEPT ![r] =
                     HTTPException(408, "Command execution timed out")]
    /\ pc' = [pc EXCEPT ![r] = "finally"]
    /\ UNCHANGED <<endpoint, body, args, lts_content, temp_file_path, created,
                   command, response, unlinked, fs, health>>

\* a finally block that lets the failure of os.unlink escape
Cleanup_Raises(r, ok) ==
    /\ pc[r] = "finally"
    /\ IF ok
       THEN /\ fs' = [fs EXCEPT ![temp_file_path[r]] = NoFile]
            /\ unlinked' = [unlinked EXCEPT ![r] = "ok"]
            /\ UNCHANGED pending
       ELSE /\ unlinked' = [unlinked EXCEPT ![r] = "failed"]
            /\ pending' = [pending EXCEPT ![r] = UnhandledError]
            /\ UNCHANGED fs
    /\ pc' = [pc EXCEPT ![r] = "return"]
    /\ UNCHANGED <<endpoint, body, args, lts_content, temp_file_path, created,
                   command, proc, response, health>>

\* lines 89-94: os.unlink(temp_file_path); a failure is logged and swallowed
Cleanup(r, ok) ==
    /\ pc[r] = "finally"
    /\ IF ok
       THEN /\ fs' = [fs EXCEPT ![temp_file_path[r]] = NoFile]
            /\ unlinked' = [unlinked EXCEPT ![r] = "ok"]
       ELSE /\ unlinked' = [unlinked EXCEPT ![r] = "failed"]
            /\ UNCHANGED fs
    /\ pc' = [pc EXCEPT ![r] = "return"]
    /\ UNCHANGED <<endpoint, body, args, lts_content, temp_file_path, created,
                   command, proc, pending, response, health>>

\* the pending return value or exception leaves the function and the
\* framework sends it to the client
Deliver(r) ==
    /\ pc[r] = "return"
    /\ response' = [response EXCEPT ![r] = pending[r]]
    /\ pc' = [pc EXCEPT ![r] = "done"]
    /\ UNCHANGED <<endpoint, body, args, lts_content, temp_file_path, created,
                   command, proc, pending, unlinked, fs, health>>

\* ------------------------------------------------------- health probe
JavaRuns == {"exit0", "exit1", "FileNotFoundError", "TimeoutExpired"}

\* a probe that reports java as available only when the jar is there too
health_check_Aggregate(jar_on_disk, java_run) ==
    LET jar_exists == jar_on_disk
        java_available == jar_exists /\ java_run \in {"exit0", "exit1"}
    IN [probed |-> TRUE, jar_on_disk |-> jar_on_disk, java_run |-> java_run,
        status |-> IF jar_exists /\ java_available THEN "healthy" ELSE "unhealthy",
        ltsp_jar_exists |-> jar_exists,
        ltsp_jar_path |-> LTSP_JAR_PATH,
        java_available |-> java_available]

\* a probe that looks at the exit status of `java -version`
health_check_ReturnCode(jar_on_disk, java_run) ==
    LET jar_exists == jar_on_disk
        java_available == java_run = "exit0"
    IN [probed |-> TRUE, jar_on_disk |-> jar_on_disk, java_run |-> java_run,
        status |-> IF jar_exists /\ java_available THEN "healthy" ELSE "unhealthy",
        ltsp_jar_exists |-> jar_exists,
        ltsp_jar_path |-> LTSP_JAR_PATH,
        java_available |-> java_available]

\* lines 173-192; jar_on_disk is what os.path.exists finds, java_run is how
\* `java -version` ends under the 5 second timeout
health_check(jar_on_disk, java_run) ==
    LET jar_exists == jar_on_disk
        java_available == java_run \in {"exit0", "exit1"}
    IN [probed |-> TRUE, jar_on_disk |-> jar_on_disk, java_run |-> java_run,
        status |-> IF jar_exists /\ java_available THEN "healthy" ELSE "unhealthy",
        ltsp_jar_exists |-> jar_exists,
        ltsp_jar_path |-> LTSP_JAR_PATH,
        java_available |-> java_available]

Health(jar_on_disk, java_run) ==
    /\ health' = health_check(jar_on_disk, java_run)
    /\ UNCHANGED reqVars

\* ------------------------------------------------------ specifications
Handle(r, rawOutputs) ==
    \/ \E p \in Paths : CreateTempFile(r, p)
    \/ WriteContent(r)
    \/ WriteFails(r)
    \/ BuildCommand(r)
    \/ Spawn(r)
    \/ \E exc \in {"FileNotFoundError", "PermissionError"} : SpawnFails(r, exc)
    \/ \E rc \in ExitCodes, out \in rawOutputs, err \in rawOutputs :
          RunCompletes(r, rc, out, err)
    \/ RunTimesOut(r)
    \/ \E ok \in BOOLEAN : Cleanup(r, ok)
    \/ Deliver(r)

\* one request at a time, every endpoint and body, and the health probe
Next ==
    \/ \E r \in SeqReq, ep \in Endpoints, b \in Bodies : Receive(r, ep, b)
    \/ \E r \in SeqReq : Handle(r, RawOutputs)
    \/ \E jar \in BOOLEAN, run \in JavaRuns : Health(jar, run)

Spec == Init /\ [][Next]_vars

\* NumReq requests in flight together
NextConc ==
    \/ \E r \in Req, ep \in ConcEndpoints, b \in ConcBodies : Receive(r, ep, b)
    \/ \E r \in Req : Handle(r, ConcRawOutputs)

SpecConc == Init /\ [][NextConc]_vars

\* ----------------------------------------------------------- properties
Done(r) == pc[r] = "done"

\* the request entered the try statement of execute_ltsp_command, so it
\* leaves on one of its four exit paths: analyzer exit 0, analyzer exit
\* non-zero, timeout, or another exception
EnteredTry(r) == temp_file_path[r] # NoPath

\* C1 (as stated): every request that created its temporary file and left
\* on one of the four exit paths has no temporary file left when it ends.
C1_FileRemovedOnEveryExitPath ==
    \A r \in Req : Done(r) /\ EnteredTry(r) => ~fs[created[r]].exists

\* C1 (amended): on each of the four exit paths os.unlink has been attempted
\* on the request's own file by the time the request ends, and the file is
\* gone whenever that unlink succeeded.
C1_UnlinkAttemptedOnEveryExitPath ==
    \A r \in Req :
        Done(r) /\ EnteredTry(r) =>
            /\ unlinked[r] # "no"
            /\ temp_file_path[r] = created[r]
            /\ unlinked[r] = "ok" => ~fs[created[r]].exists

C1_Witness ==
    \E r \in Req : /\ Done(r)
                   /\ proc[r].state = "killed"
                   /\ response[r].status = 408
                   /\ unlinked[r] = "ok"
                   /\ ~fs[created[r]].exists

\* C2: a timed out analyzer is answered with 408 and never with an
\* LTSResponse; an analyzer that exits with a non-zero status is answered
\* with an LTSResponse with success false and never with 408 or 500.
C2_TimeoutDistinctFromAnalyzerFailure ==
    \A r \in Req :
        Done(r) =>
            /\ proc[r].state = "killed" =>
                  /\ response[r].kind = "HTTPException"
                  /\ response[r].status = 408
            /\ proc[r].state = "exited" /\ proc[r].rc # 0 =>
                  /\ response[r].kind = "LTSResponse"
                  /\ response[r].success = FALSE
                  /\ response[r].status \notin {408, 500}

\* C3: whenever the analyzer terminates within the timeout the response is
\* an LTSResponse with success = (exit status = 0), output the captured
\* stdout and error the captured stderr, None when that is empty.
C3_ResponseMirrorsProcess ==
    \A r \in Req :
        Done(r) /\ proc[r].state = "exited" =>
            /\ response[r].kind = "LTSResponse"
            /\ response[r].success = (proc[r].rc = 0)
            /\ response[r].output = Text(proc[r].stdout)
            /\ response[r].error = IF proc[r].stderr = "" THEN NoneVal
                                   ELSE Text(proc[r].stderr)

\* What remains of C2 and C3 on the code: whenever subprocess.run returns
\* (the analyzer exited in time and its output decoded) the response is the
\* LTSResponse of lines 70-80, a timeout is always the 408, and output that
\* does not decode is the 500 of line 88.
RunOutcomeMapping ==
    \A r \in Req :
        Done(r) =>
            /\ proc[r].state = "killed" =>
                  response[r] = HTTPException(408, "Command execution timed out")
            /\ proc[r].state = "exited"
                  /\ Decodable(proc[r].stdout) /\ Decodable(proc[r].stderr) =>
                  /\ response[r].kind = "LTSResponse"
                  /\ response[r].success = (proc[r].rc = 0)
                  /\ response[r].output = Text(proc[r].stdout)
                  /\ response[r].error = IF proc[r].stderr = "" THEN NoneVal
                                         ELSE Text(proc[r].stderr)
            /\ proc[r].state = "exited"
                  /\ ~(Decodable(proc[r].stdout) /\ Decodable(proc[r].stderr)) =>
                  /\ response[r].kind = "HTTPException"
                  /\ response[r].status = 500

\* the flags C4 lists for each endpoint, <process> being DEFAULT when the
\* body omits it
C4_Flags(ep, b) ==
    LET p == IF b.process = Absent THEN "DEFAULT" ELSE b.process
    IN CASE ep = "/parse" -> <<"-b", "parse">>
         [] ep = "/compile" -> <<"-b", "compile", "-p", p>>
         [] ep = "/compose" -> <<"-b", "compose", "-p", p>>
         [] ep = "/check/safety" -> <<"-c", "safety", "-p", p>>
         [] ep = "/check/progress" -> <<"-c", "progress", "-p", p>>
         [] ep = "/check/ltl" -> <<"-c", "ltl_property", "-p", p, "-l", b.property>>

\* C4: every analyzer invocation is java -jar <jar> followed by the path of
\* the request's temporary file and then exactly the flags of the request's
\* endpoint.
C4_InvocationMatchesEndpoint ==
    \A r \in Req :
        proc[r].state # "none" =>
            /\ proc[r].argv = <<"java", "-jar", LTSP_JAR_PATH, created[r]>>
                                \o C4_Flags(endpoint[r], body[r])
            /\ created[r] \in Paths

C4_Witness ==
    \E r \in Req : /\ endpoint[r] = "/check/ltl"
                   /\ body[r].process = Absent
                   /\ proc[r].state = "exited"
                   /\ SubSeq(proc[r].argv, 5, 10) =
                        <<"-c", "ltl_property", "-p", "DEFAULT", "-l", "ASSERT_P">>

\* the request holds a temporary file it has written and not yet cleaned up
HoldsFile(r) == pc[r] \in {"build", "run", "wait", "finally"}

\* C5: no two requests in flight use the same temporary file, every analyzer
\* reads exactly its own request's content, a file in use is never removed
\* by another request, and once all requests have finished no temporary
\* file remains.
C5_ConcurrentRequestsIsolated ==
    /\ \A r1, r2 \in Req :
          r1 # r2 /\ pc[r1] \in {"write"} \cup {"build", "run", "wait", "finally"}
                  /\ pc[r2] \in {"write"} \cup {"build", "run", "wait", "finally"}
             => created[r1] # created[r2]
    /\ \A r \in Req : proc[r].state = "exited" => proc[r].read = lts_content[r]
    /\ \A r \in Req :
          HoldsFile(r) => fs[temp_file_path[r]] =
                             [exists |-> TRUE, content |-> lts_content[r],
                              open |-> FALSE]
    /\ (\A r \in Req : Done(r)) => \A p \in Paths : ~fs[p].exists

\* What remains of C5 on the code: the uniqueness and isolation parts, and
\* the only files left behind belong to a request whose write raised or
\* whose unlink failed.
ConcurrentIsolation ==
    /\ \A r1, r2 \in Req :
          r1 # r2 /\ pc[r1] \in {"write"} \cup {"build", "run", "wait", "finally"}
                  /\ pc[r2] \in {"write"} \cup {"build", "run", "wait", "finally"}
             => created[r1] # created[r2]
    /\ \A r \in Req : proc[r].state = "exited" => proc[r].read = lts_content[r]
    /\ \A r \in Req :
          HoldsFile(r) => fs[temp_file_path[r]] =
                             [exists |-> TRUE, content |-> lts_content[r],
                              open |-> FALSE]
    /\ (\A r \in Req : Done(r)) =>
          \A p \in Paths :
              fs[p].exists => \E r \in Req : /\ created[r] = p
                                             /\ \/ ~EnteredTry(r)
                                                \/ unlinked[r] = "failed"

\* C6: the probe reports the jar check and the java check as two booleans,
\* each equal to the outcome of its own check, and status is healthy exactly
\* when both are true.
C6_HealthBooleansIndependent ==
    health.probed =>
        /\ health.ltsp_jar_exists = health.jar_on_disk
        /\ health.java_available =
              (health.java_run \notin {"FileNotFoundError", "TimeoutExpired"})
        /\ health.status \in {"healthy", "unhealthy"}
        /\ health.status = "healthy" <=>
              (health.ltsp_jar_exists /\ health.java_available)

C6_Witness ==
    /\ health.probed
    /\ ~health.ltsp_jar_exists
    /\ health.java_available
    /\ health.status = "unhealthy"

\* C7: when writing the content into the freshly created temporary file
\* raises, the file is removed before the request ends.
C7_FileRemovedWhenWriteRaises ==
    \A r \in Req :
        Done(r) /\ created[r] # NoPath /\ ~EnteredTry(r) => ~fs[created[r]].exists

\* C8: a request rejected by validation creates no file and spawns no
\* process; the analyzer runs only on a file that holds the full content and
\* is closed; the unlink is attempted after the analyzer has terminated or
\* timed out and before anything is delivered to the client.
C8_StepsInOrder ==
    \A r \in Req :
        /\ pc[r] # "idle" /\ ( \/ body[r].content = Absent
                               \/ endpoint[r] = "/check/ltl" /\ body[r].property = Absent )
             => /\ response[r].status = 422
                /\ created[r] = NoPath
                /\ proc[r].state = "none"
                /\ unlinked[r] = "no"
        /\ proc[r].state = "running"
             => /\ fs[proc[r].argv[4]] = [exists |-> TRUE, content |-> body[r].content,
                                          open |-> FALSE]
                /\ unlinked[r] = "no"
                /\ response[r] = NoResp
        /\ unlinked[r] # "no" => proc[r].state \in {"none", "exited", "killed"}
        /\ response[r] # NoResp /\ proc[r].state # "none"
             => /\ proc[r].state \in {"exited", "killed"}
                /\ unlinked[r] # "no"

C8_Witness ==
    \E r \in Req : /\ Done(r)
                   /\ proc[r].state = "exited"
                   /\ proc[r].read = body[r].content
                   /\ unlinked[r] = "ok"
                   /\ response[r].kind = "LTSResponse"

\* C9: the finally block leaves the pending result or exception as it is,
\* whether or not the unlink succeeds, and what is delivered to the client
\* is that pending result.
C9_CleanupKeepsOutcome ==
    [][\A r \in Req :
          /\ pc[r] = "finally" /\ pc'[r] # "finally" =>
                pending'[r] = pending[r] /\ response'[r] = NoResp
          /\ pc[r] = "return" /\ pc'[r] # "return" =>
                response'[r] = pending[r] /\ pending[r] # NoResp]_vars

C9_Witness ==
    \E r \in Req : /\ Done(r)
                   /\ unlinked[r] = "failed"
                   /\ fs[created[r]].exists
                   /\ response[r].kind = "LTSResponse"
                   /\ response[r].success

\* C10: every probe answers, whatever `java -version` does; java_available
\* is true exactly when that command ran to completion, whatever its exit
\* status; the probe touches no temporary file and no analyzer process.
C10_HealthNeverFails ==
    [][health' # health =>
          /\ health'.probed
          /\ health'.status \in {"healthy", "unhealthy"}
          /\ health'.java_available = (health'.java_run \in {"exit0", "exit1"})
          /\ fs' = fs
          /\ proc' = proc
          /\ created' = created]_vars

C10_Witness ==
    /\ health.probed
    /\ health.java_run = "exit1"
    /\ health.java_available

====
